---- MODULE Spec2Model ----
(***************************************************************************)
(* A model of scripts/translate_md.py of smyrgeorge/lexis: the natural     *)
(* sort of chunk files, the context, the dictionary and the request        *)
(* assembled by translate_file, and the batch loop of main() over one      *)
(* directory (or one file), run and re-run, with Ctrl+C; with it the       *)
(* stages of scripts/pipeline.py and chunk_by_size of scripts/chunk_md.py. *)
(*                                                                         *)
(* A file name is a sequence of characters, a character a one-element      *)
(* string; a text is a sequence of lines.                                  *)
(***************************************************************************)
EXTENDS Integers, Sequences, FiniteSets, TLC

VARIABLES
    \* ---- the sort of one directory listing (sorted(glob, key=natural_sort_key))
    globList,        \* what glob("*.md") returned, in the order the OS gave it
    sortedList,      \* [status, list]: not yet sorted, sorted, or ValueError raised
    \* ---- one call of translate_file, up to the request (lines 244-298, 124)
    tfArgs,          \* [content, prev_file, next_file, context_lines, dictionary_path]
    tfOut,           \* [status, prev_lines, next_lines, payload, full_prompt]
    \* ---- the arguments of main() and what it finds in its environment
    inputKind,       \* "dir", "file" or "missing": what args.input_file names
    inputFile,       \* the file named, in "file" mode
    outputDirOpt,    \* args.output_dir: "none" (default) or "out"
    target_lang,     \* args.target_lang
    context_lines,   \* args.context_lines
    dictionary_path, \* args.dictionary: no dictionary, or the file it names
    api_key,         \* whether the provider's API key is in the environment
    \* ---- the file system
    srcDir,          \* the input directory: file name -> text
    outDir,          \* the directory --output-dir names: file name -> text
    undecodable,     \* names of srcDir whose bytes are not valid UTF-8
    outDirExists,    \* whether the directory --output-dir names exists
    src0,            \* srcDir as it was before the first run
    \* ---- one run of main()
    run,             \* number of this run
    pc,              \* "Start", "Loop", "Job", "Done"
    ended,           \* how the run ended: "", "no_input", "no_md", "no_pending", "loop_end",
                     \* "crash", "interrupted"
    exitStatus,      \* the process's exit status; -1 while it runs
    all_md_files,
    files_to_process,
    idx,
    processed,
    failed,
    prev_file,
    next_file,
    \* ---- what this run did (history)
    atStart,         \* [src, out, dictionary]: the names in each directory and the
                     \* dictionary file, as they were when the run started
    attempted,       \* chunks whose loop iteration started
    dispatched,      \* chunks for which the backend was called
    jobFailed,       \* chunks whose translate_file raised
    opened,          \* <<dir, name, source chunk>> of each file opened for writing
    written,         \* <<dir, name, source chunk>> of each file written
    calls,           \* backend calls made
    sent,            \* the full_prompt of the last backend call
    reply,           \* what the last backend call returned; NoReply when it returned nothing
    outcome,         \* how the last job ended: "", "ok", "dictionary", "no_key",
                     \* "transport", "empty", "interrupted"
    prevExit,        \* the exit status of the previous run; -1 in the first run
    prevJobs,        \* [pending, opened, written, failed]: the work list of the previous
                     \* run, the chunks it opened an artifact file for, the chunks whose
                     \* artifact it wrote, the chunks whose job failed
    \* ---- one call of chunk_by_size (scripts/chunk_md.py)
    chunking,        \* [pc, content, max_chars, overlap, start, end, chunks]
    \* ---- one run of scripts/pipeline.py
    pipeline         \* [pc, args, ran, ended, exitStatus]: ran lists the stages run,
                     \* each with its command and the status it exited with

sortVars == <<globList, sortedList>>
tfVars   == <<tfArgs, tfOut>>
argVars  == <<inputKind, inputFile, outputDirOpt, target_lang, context_lines,
              dictionary_path, api_key>>
fsVars   == <<srcDir, outDir, undecodable, outDirExists, src0>>
runVars  == <<run, pc, ended, exitStatus, all_md_files, files_to_process, idx,
              processed, failed, prev_file, next_file>>
histVars == <<atStart, attempted, dispatched, jobFailed, opened, written, calls, sent,
              reply, outcome, prevExit, prevJobs>>
toolVars == <<chunking, pipeline>>
vars     == <<sortVars, tfVars, argVars, fsVars, runVars, histVars, toolVars>>

(***************************************************************************)
(* Characters.  "sup2" stands for the one character U+00B2 (superscript    *)
(* two): str.isdigit() is true of it, the pattern \d does not match it     *)
(* (category No, not Nd) and int() rejects it.                             *)
(***************************************************************************)
DecimalChars == {"0", "1", "2"}
SupDigit     == "sup2"

DigitVal(c) == CASE c = "0" -> 0 [] c = "1" -> 1 [] c = "2" -> 2 [] OTHER -> 0

\* str.lower() on one character
Lower(c) == IF c = "C" THEN "c" ELSE c

\* the code point, which orders str comparison
Code(c) ==
    CASE c = "." -> 46 [] c = "0" -> 48 [] c = "1" -> 49 [] c = "2" -> 50
      [] c = "C" -> 67 [] c = "_" -> 95 [] c = "c" -> 99 [] c = "d" -> 100
      [] c = "f" -> 102 [] c = "m" -> 109 [] c = "sup2" -> 178 [] OTHER -> 0

\* what \d matches
MatchesDigitPattern(c) == c \in DecimalChars

\* str.isdigit() on a string: non-empty and every character a digit
IsDigitStr(s) ==
    /\ Len(s) > 0
    /\ \A i \in 1..Len(s) : s[i] \in DecimalChars \cup {SupDigit}

\* int() accepts decimal characters only
IntAccepts(s) == Len(s) > 0 /\ \A i \in 1..Len(s) : s[i] \in DecimalChars

RECURSIVE IntValue(_)
IntValue(s) ==
    IF Len(s) = 0 THEN 0
    ELSE 10 * IntValue(SubSeq(s, 1, Len(s) - 1)) + DigitVal(s[Len(s)])

LowerStr(s) == [i \in 1..Len(s) |-> Lower(s[i])]

(***************************************************************************)
(* re.split(r'(\d+)', name): the runs of the name, text runs at the odd    *)
(* places and digit runs at the even ones; the first and the last run are  *)
(* text runs, empty when the name starts or ends with a digit.             *)
(***************************************************************************)
RECURSIVE SplitFrom(_, _, _)
SplitFrom(s, i, acc) ==
    IF i > Len(s)
    THEN IF Len(acc) % 2 = 0 THEN Append(acc, <<>>) ELSE acc
    ELSE LET n       == Len(acc)
             inDigit == (n % 2 = 0)
             isD     == MatchesDigitPattern(s[i])
         IN  IF isD = inDigit
             THEN SplitFrom(s, i + 1, [acc EXCEPT ![n] = Append(acc[n], s[i])])
             ELSE SplitFrom(s, i + 1, Append(acc, <<s[i]>>))

SplitDigits(s) == SplitFrom(s, 1, << <<>> >>)

\* one element of the key: int(c) if c.isdigit() else c.lower()
KeyElem(c) ==
    IF IsDigitStr(c)
    THEN [isInt |-> TRUE, n |-> IntValue(c), s |-> <<>>]
    ELSE [isInt |-> FALSE, n |-> 0, s |-> LowerStr(c)]

\* natural_sort_key(path): the key, or the ValueError int() raises
natural_sort_key(name) ==
    LET runs == SplitDigits(name)
    IN  IF \E i \in 1..Len(runs) : IsDigitStr(runs[i]) /\ ~IntAccepts(runs[i])
        THEN [raised |-> TRUE, elems |-> <<>>]
        ELSE [raised |-> FALSE, elems |-> [i \in 1..Len(runs) |-> KeyElem(runs[i])]]

\* str < str: by code point, a proper prefix first
RECURSIVE StrLess(_, _)
StrLess(a, b) ==
    IF Len(b) = 0 THEN FALSE
    ELSE IF Len(a) = 0 THEN TRUE
    ELSE IF Code(a[1]) # Code(b[1]) THEN Code(a[1]) < Code(b[1])
    ELSE StrLess(Tail(a), Tail(b))

ElemLess(x, y) ==
    IF x.isInt /\ y.isInt THEN x.n < y.n
    ELSE IF ~x.isInt /\ ~y.isInt THEN StrLess(x.s, y.s)
    ELSE FALSE   \* int against str is a TypeError; the places of a key alternate, so it never arises

\* list < list on two keys: the first place where they differ decides
RECURSIVE KeyLess(_, _)
KeyLess(a, b) ==
    IF Len(b) = 0 THEN FALSE
    ELSE IF Len(a) = 0 THEN TRUE
    ELSE IF a[1] # b[1] THEN ElemLess(a[1], b[1])
    ELSE KeyLess(Tail(a), Tail(b))

NameLess(x, y) == KeyLess(natural_sort_key(x).elems, natural_sort_key(y).elems)

\* sorted() is stable: x goes before the first element that is greater than it
RECURSIVE InsertSorted(_, _)
InsertSorted(x, s) ==
    IF Len(s) = 0 THEN <<x>>
    ELSE IF NameLess(x, s[Len(s)]) THEN Append(InsertSorted(x, SubSeq(s, 1, Len(s) - 1)), s[Len(s)])
    ELSE Append(s, x)

RECURSIVE SortedFrom(_, _, _)
SortedFrom(s, i, acc) ==
    IF i > Len(s) THEN acc ELSE SortedFrom(s, i + 1, InsertSorted(s[i], acc))

\* sorted(list, key=natural_sort_key): the sorted list, or the ValueError of a key
SortedByNaturalKey(s) ==
    IF \E i \in 1..Len(s) : natural_sort_key(s[i]).raised
    THEN [status |-> "ValueError", list |-> <<>>]
    ELSE [status |-> "sorted", list |-> SortedFrom(s, 1, <<>>)]

(***************************************************************************)
(* The sort of a directory listing, on its own: every listing of two       *)
(* distinct *.md names over SortAlphabet.                                  *)
(***************************************************************************)
MaxNameLen == 3
SortAlphabet == {"c", "C", "0", "1", "2", SupDigit}
MdSuffix == <<".", "m", "d">>

SeqsUpTo(S, n) == UNION {[1..k -> S] : k \in 1..n}
SortNames == {b \o MdSuffix : b \in SeqsUpTo(SortAlphabet, MaxNameLen)}

NoRun == [status |-> "none", list |-> <<>>]
NoCall == [status |-> "none"]

SortIdle ==
    /\ globList = <<>>
    /\ sortedList = NoRun

TfIdle ==
    /\ tfArgs = NoCall
    /\ tfOut = NoCall

ToolIdle ==
    /\ chunking = NoCall
    /\ pipeline = NoCall

SortInit ==
    /\ \E a \in SortNames : \E b \in SortNames \ {a} : globList = <<a, b>>
    /\ sortedList = [status |-> "unsorted", list |-> <<>>]

\* sorted(input_path.glob("*.md"), key=natural_sort_key) returns
SortListing ==
    /\ sortedList.status = "unsorted"
    /\ SortedByNaturalKey(globList).status = "sorted"
    /\ sortedList' = SortedByNaturalKey(globList)
    /\ UNCHANGED globList

\* ... or a key raises, and sorted() with it
SortRaises ==
    /\ sortedList.status = "unsorted"
    /\ SortedByNaturalKey(globList).status = "ValueError"
    /\ sortedList' = SortedByNaturalKey(globList)
    /\ UNCHANGED globList

(***************************************************************************)
(* Texts and files.  A text is the sequence of its lines (readlines());    *)
(* "" is a blank line, one that line.strip() empties.                      *)
(***************************************************************************)
IsBlankLine(l) == l = ""

\* a slip: the check of the reply dropped
IsBlankText_Never(t) == FALSE

\* a slip: "not text" alone, a reply of white space passes
IsBlankText_EmptyOnly(t) == t = <<>>

\* not text or not text.strip()
IsBlankText(t) == \A i \in 1..Len(t) : IsBlankLine(t[i])

NoFile == [kind |-> "none", lines |-> <<>>]
ReadableFile(t) == [kind |-> "file", lines |-> t]
UnreadableFile == [kind |-> "unreadable", lines |-> <<>>]

\* lines[-n:] and lines[:n], as Python slices them for any integer n
LastSlice(lines, n) ==
    IF n > 0 THEN SubSeq(lines, Len(lines) - n + 1, Len(lines))
    ELSE SubSeq(lines, 1 - n, Len(lines))
FirstSlice(lines, n) ==
    IF n >= 0 THEN SubSeq(lines, 1, n)
    ELSE SubSeq(lines, 1, Len(lines) + n)

\* a slip: the text of the warning is returned as context
get_file_lines_Warning(file, num_lines, from_end) ==
    IF file.kind # "file" THEN <<"Warning: Could not read context">>
    ELSE IF from_end
         THEN IF Len(file.lines) >= num_lines THEN LastSlice(file.lines, num_lines) ELSE file.lines
         ELSE IF Len(file.lines) >= num_lines THEN FirstSlice(file.lines, num_lines) ELSE file.lines

\* get_file_lines(file_path, num_lines, from_end): a file that cannot be read gives []
get_file_lines(file, num_lines, from_end) ==
    IF file.kind # "file" THEN <<>>
    ELSE IF from_end
         THEN IF Len(file.lines) >= num_lines THEN LastSlice(file.lines, num_lines) ELSE file.lines
         ELSE IF Len(file.lines) >= num_lines THEN FirstSlice(file.lines, num_lines) ELSE file.lines

\* the marker blocks translate_file puts around context and main content
PrevHeader == "--- CONTEXT FROM PREVIOUS CHUNK ---"
PrevFooter == "--- END OF PREVIOUS CHUNK CONTEXT ---"
NextHeader == "--- CONTEXT FROM NEXT CHUNK ---"
NextFooter == "--- END OF NEXT CHUNK CONTEXT ---"
MainHeader == "--- MAIN CONTENT TO TRANSLATE ---"
MainFooter == "--- END OF MAIN CONTENT ---"
Markers == {PrevHeader, PrevFooter, NextHeader, NextFooter, MainHeader, MainFooter}

\* a slip: context_lines >= 0 for context_lines > 0; lines[-0:] is the whole file
PrevLines_OffByOne(prev, n) ==
    IF prev.kind # "none" /\ n >= 0 THEN get_file_lines(prev, n, TRUE) ELSE <<>>

\* prev_lines of translate_file (lines 252-253): [] unless prev_file and context_lines > 0
PrevLines(prev, n) ==
    IF prev.kind # "none" /\ n > 0 THEN get_file_lines(prev, n, TRUE) ELSE <<>>

\* next_lines of translate_file (lines 267-268)
NextLines(next, n) ==
    IF next.kind # "none" /\ n > 0 THEN get_file_lines(next, n, FALSE) ELSE <<>>

\* context_prefix (lines 254-265)
ContextPrefix(prev_lines) ==
    IF prev_lines # <<>> THEN <<PrevHeader>> \o prev_lines \o <<PrevFooter>> ELSE <<>>

\* context_suffix (lines 269-280)
ContextSuffix(next_lines) ==
    IF next_lines # <<>> THEN <<NextHeader>> \o next_lines \o <<NextFooter>> ELSE <<>>

\* a slip: the main markers are put around the content in every case
ContentWithContext_AlwaysMarked(content, prev, next, n) ==
    ContextPrefix(PrevLines(prev, n)) \o <<MainHeader>> \o content \o <<MainFooter>>
        \o ContextSuffix(NextLines(next, n))

\* content_with_context (lines 283-293)
ContentWithContext(content, prev, next, n) ==
    LET context_prefix == ContextPrefix(PrevLines(prev, n))
        context_suffix == ContextSuffix(NextLines(next, n))
    IN  IF context_prefix # <<>> \/ context_suffix # <<>>
        THEN context_prefix \o <<MainHeader>> \o content \o <<MainFooter>> \o context_suffix
        ELSE content

(***************************************************************************)
(* The dictionary.  A dictionary file is the sequence of its lines, a line *)
(* a sequence of characters; " " is the white space str.strip() removes.   *)
(***************************************************************************)
IsSpace(c) == c \in {" ", "\n"}

RECURSIVE LStrip(_)
LStrip(s) == IF Len(s) > 0 /\ IsSpace(s[1]) THEN LStrip(Tail(s)) ELSE s

RECURSIVE RStrip(_)
RStrip(s) ==
    IF Len(s) > 0 /\ IsSpace(s[Len(s)]) THEN RStrip(SubSeq(s, 1, Len(s) - 1)) ELSE s

\* str.strip()
Strip(s) == RStrip(LStrip(s))

\* the place of the first ':' of a line, 0 when it has none
FirstColon(s) ==
    IF \E i \in 1..Len(s) : s[i] = ":"
    THEN CHOOSE i \in 1..Len(s) : s[i] = ":" /\ \A j \in 1..(i - 1) : s[j] # ":"
    ELSE 0

\* f"{term} -> {translations}" (line 98)
Arrow == <<" ", "-", ">", " ">>
DictionaryEntry(term, translations) == term \o Arrow \o translations

\* a slip: the line is split at its last ':' instead of its first
SplitPlace_LastColon(line) ==
    IF \E i \in 1..Len(line) : line[i] = ":"
    THEN CHOOSE i \in 1..Len(line) : line[i] = ":" /\ \A j \in (i + 1)..Len(line) : line[j] # ":"
    ELSE 0

\* where line.split(':', 1) splits (line 88)
SplitPlace(line) == FirstColon(line)

\* one line of the file (lines 76-98): skipped, an entry, or the ValueError
ParseDictionaryLine(raw) ==
    LET line == Strip(raw)
    IN  IF line = <<>> \/ line[1] = "#" THEN [kind |-> "skip", entry |-> <<>>]
        ELSE IF FirstColon(line) = 0 THEN [kind |-> "ValueError", entry |-> <<>>]
        ELSE LET k            == SplitPlace(line)
                 term         == Strip(SubSeq(line, 1, k - 1))
                 translations == Strip(SubSeq(line, k + 1, Len(line)))
             IN  IF term = <<>> \/ translations = <<>>
                 THEN [kind |-> "ValueError", entry |-> <<>>]
                 ELSE [kind |-> "entry", entry |-> DictionaryEntry(term, translations)]

\* a slip: a line that is no entry is passed over instead of raising
RECURSIVE DictionaryEntries_SkipBad(_, _)
DictionaryEntries_SkipBad(lines, acc) ==
    IF Len(lines) = 0 THEN [status |-> "ok", entries |-> acc]
    ELSE LET parsed == ParseDictionaryLine(lines[1])
         IN  IF parsed.kind = "entry"
             THEN DictionaryEntries_SkipBad(Tail(lines), Append(acc, parsed.entry))
             ELSE DictionaryEntries_SkipBad(Tail(lines), acc)

\* the loop of lines 75-98: the entries in file order, up to the first line that raises
RECURSIVE DictionaryEntries(_, _)
DictionaryEntries(lines, acc) ==
    IF Len(lines) = 0 THEN [status |-> "ok", entries |-> acc]
    ELSE LET parsed == ParseDictionaryLine(lines[1])
         IN  IF parsed.kind = "ValueError" THEN [status |-> "ValueError", entries |-> <<>>]
             ELSE IF parsed.kind = "skip" THEN DictionaryEntries(Tail(lines), acc)
             ELSE DictionaryEntries(Tail(lines), Append(acc, parsed.entry))

NoDictionary == [kind |-> "none", lines |-> <<>>]
MissingDictionary == [kind |-> "missing", lines |-> <<>>]
DictionaryFile(lines) == [kind |-> "file", lines |-> lines]

\* the "Translation Dictionary" section (lines 100-109): nothing when there is no entry
DictionarySection(entries) ==
    IF entries = <<>> THEN <<>> ELSE <<[part |-> "dictionary", entries |-> entries]>>

\* dictionary of translate_file (lines 296-298) with load_txt_dictionary (lines 59-109)
load_txt_dictionary(txt_path) ==
    IF txt_path.kind = "none" THEN [status |-> "ok", dictionary |-> <<>>]
    ELSE IF txt_path.kind = "missing"
    THEN [status |-> "FileNotFoundError", dictionary |-> <<>>]
    ELSE LET loaded == DictionaryEntries(txt_path.lines, <<>>)
         IN  [status |-> loaded.status, dictionary |-> DictionarySection(loaded.entries)]

\* args.prompt formatted with the two languages (lines 480-483)
FormattedPrompt == <<"Translate the following markdown text">>

\* full_prompt = f"{prompt}\n{dictionary}\n## Text to Translate:\n\n{text}" (lines 124, 154)
FullPrompt(text, prompt, dictionary) ==
    <<[part |-> "prompt", lines |-> prompt]>>
        \o dictionary
        \o <<[part |-> "text_header", lines |-> <<"## Text to Translate:">>],
             [part |-> "text", lines |-> text]>>

(***************************************************************************)
(* translate_file up to its payload, on its own: every content, every      *)
(* neighbour (none, a text, a file that cannot be read), every             *)
(* context_lines of ContextLineValues.                                     *)
(***************************************************************************)
MaxLines == 2
LinePool == {"p", ""}
ContextLineValues == -1..(MaxLines + 1)

Texts == {<<>>} \cup SeqsUpTo(LinePool, MaxLines)
FileArgs == {NoFile, UnreadableFile} \cup {ReadableFile(t) : t \in Texts}

TfInit ==
    /\ \E c \in Texts : \E p \in FileArgs : \E x \in FileArgs : \E n \in ContextLineValues :
         tfArgs = [status |-> "called", content |-> c, prev_file |-> p,
                   next_file |-> x, context_lines |-> n, dictionary_path |-> NoDictionary]
    /\ tfOut = NoCall

\* translate_file with a dictionary: the dictionary files of up to MaxDictLines
\* lines of DictLinePool, a few contents and neighbours
MaxDictLines == 2
DictLinePool ==
    { <<"g", ":", " ", "c">>,               \* "g: c"
      <<" ", "p", " ", ":", "d", " ">>,     \* " p :d "
      <<"a", ":", "b", ":", "c">>,          \* "a:b:c"
      <<>>,                                 \* an empty line
      <<" ">>,                              \* a line of white space
      <<"#", "x">>,                         \* "#x"
      <<" ", "#", ":">>,                    \* " #:", an indented comment
      <<"b">>,                              \* no separator
      <<":", "c">>,                         \* no term
      <<"g", ":", " ">> }                   \* no translation
DictFiles ==
    {NoDictionary, MissingDictionary}
        \cup {DictionaryFile(l) : l \in {<<>>} \cup SeqsUpTo(DictLinePool, MaxDictLines)}
RequestTexts == {<<>>, <<"p">>}
RequestFiles == {NoFile, UnreadableFile, ReadableFile(<<"">>), ReadableFile(<<"p", "q">>)}
RequestContextLines == {0, 1}

RequestInit ==
    /\ \E c \in RequestTexts : \E p \in RequestFiles : \E x \in RequestFiles :
       \E n \in RequestContextLines : \E d \in DictFiles :
         tfArgs = [status |-> "called", content |-> c, prev_file |-> p,
                   next_file |-> x, context_lines |-> n, dictionary_path |-> d]
    /\ tfOut = NoCall

\* lines 244-298 of translate_file and the full_prompt of the provider call
\* (lines 124, 154): the payload, then the dictionary, which may raise
BuildPayload ==
    /\ tfArgs.status = "called"
    /\ tfOut.status = "none"
    /\ LET loaded  == load_txt_dictionary(tfArgs.dictionary_path)
           payload == ContentWithContext(tfArgs.content, tfArgs.prev_file,
                                         tfArgs.next_file, tfArgs.context_lines)
       IN  tfOut' = [status |-> IF loaded.status = "ok" THEN "built" ELSE loaded.status,
                     prev_lines |-> PrevLines(tfArgs.prev_file, tfArgs.context_lines),
                     next_lines |-> NextLines(tfArgs.next_file, tfArgs.context_lines),
                     payload |-> payload,
                     full_prompt |-> IF loaded.status = "ok"
                                     THEN FullPrompt(payload, FormattedPrompt, loaded.dictionary)
                                     ELSE <<>>]
    /\ UNCHANGED tfArgs

(***************************************************************************)
(* File names and paths.                                                   *)
(***************************************************************************)
EndsWith(s, suf) ==
    /\ Len(s) >= Len(suf)
    /\ SubSeq(s, Len(s) - Len(suf) + 1, Len(s)) = suf

\* Path.stem: the name without its last suffix (a leading or a trailing dot starts no suffix)
Stem(name) ==
    LET dots == {i \in 1..Len(name) : name[i] = "."}
        last == IF dots = {} THEN 0 ELSE CHOOSE i \in dots : \A j \in dots : j <= i
    IN  IF last > 1 /\ last < Len(name) THEN SubSeq(name, 1, last - 1) ELSE name

\* f"_{args.target_lang}"
TargetSuffix == <<"_">> \o target_lang

\* a slip: the suffix forgotten, the artifact takes the source's own name
OutputFileName_NoSuffix(input_file) == Stem(input_file) \o MdSuffix

\* output_filename = f"{input_path.stem}_{target_lang}.md" (line 339)
OutputFileName(input_file) == Stem(input_file) \o TargetSuffix \o MdSuffix

\* output_dir of the loop (lines 526-528): every input file's parent is the input directory
ConfiguredOutputDir == IF outputDirOpt = "none" THEN "src" ELSE "out"

\* input_path.glob("*.md"): the names, which the OS lists in any order
GlobMd == {n \in DOMAIN srcDir : EndsWith(n, MdSuffix)}
\* of the orders the OS may list them in, the model takes two: one order and its reverse
RECURSIVE SomeOrder(_)
SomeOrder(S) ==
    IF S = {} THEN <<>>
    ELSE LET x == CHOOSE y \in S : TRUE IN <<x>> \o SomeOrder(S \ {x})
Reversed(s) == [i \in 1..Len(s) |-> s[Len(s) + 1 - i]]
Listings(S) == {SomeOrder(S), Reversed(SomeOrder(S))}

\* a slip: no file is taken to carry the target suffix
HasTargetSuffix_Never(f) == FALSE

\* f.stem.endswith(f"_{args.target_lang}") (lines 457, 549)
HasTargetSuffix(f) == EndsWith(Stem(f), TargetSuffix)

\* a slip: the translation is looked for in the directory --output-dir names
TranslatedFileExists_InOutputDir(f) == (Stem(f) \o TargetSuffix \o MdSuffix) \in DOMAIN outDir

\* translated_file.exists(), translated_file = f.parent / f"{f.stem}_{target_lang}.md" (lines 461-462)
TranslatedFileExists(f) == (Stem(f) \o TargetSuffix \o MdSuffix) \in DOMAIN srcDir

\* a slip: the existence check of lines 461-465 dropped
Skipped_SuffixOnly(f) == HasTargetSuffix(f)

\* the filter of lines 455-466: the chunk is skipped
Skipped(f) == HasTargetSuffix(f) \/ TranslatedFileExists(f)

\* a slip: the pending files are put at the front of the list, not at its end
RECURSIVE FilterPending_Reversed(_)
FilterPending_Reversed(fs) ==
    IF Len(fs) = 0 THEN <<>>
    ELSE IF Skipped(fs[1]) THEN FilterPending_Reversed(Tail(fs))
    ELSE FilterPending_Reversed(Tail(fs)) \o <<fs[1]>>

RECURSIVE FilterPending(_)
FilterPending(fs) ==
    IF Len(fs) = 0 THEN <<>>
    ELSE IF Skipped(fs[1]) THEN FilterPending(Tail(fs))
    ELSE <<fs[1]>> \o FilterPending(Tail(fs))

RECURSIVE FilterSources(_)
FilterSources(fs) ==
    IF Len(fs) = 0 THEN <<>>
    ELSE IF HasTargetSuffix(fs[1]) THEN FilterSources(Tail(fs))
    ELSE <<fs[1]>> \o FilterSources(Tail(fs))

\* list.index(x): the first place of x, 0 for the ValueError
IndexOf(s, x) ==
    IF \E i \in 1..Len(s) : s[i] = x
    THEN CHOOSE i \in 1..Len(s) : s[i] = x /\ \A j \in 1..(i - 1) : s[j] # x
    ELSE 0

None == <<>>

\* the file a path names, as open() finds it
FileAt(name) ==
    IF name = None THEN NoFile
    ELSE IF name \notin DOMAIN srcDir \/ name \in undecodable THEN UnreadableFile
    ELSE ReadableFile(srcDir[name])

Put(d, name, text) == [n \in DOMAIN d \cup {name} |-> IF n = name THEN text ELSE d[n]]

\* a slip: one failure is let through
FinalExitStatus_OffByOne(nfailed) == IF nfailed > 1 THEN 1 ELSE 0

\* sys.exit at the end of main (lines 637-638)
FinalExitStatus(nfailed) == IF nfailed > 0 THEN 1 ELSE 0

(***************************************************************************)
(* The batch: the directories, the arguments and the backend's replies.    *)
(***************************************************************************)
MaxFiles == 3
MaxRuns == 2

c1   == <<"c", "1">> \o MdSuffix
c2   == <<"c", "2">> \o MdSuffix
c10  == <<"c", "1", "0">> \o MdSuffix
c1_f == <<"c", "1", "_", "f">> \o MdSuffix
c2_f == <<"c", "2", "_", "f">> \o MdSuffix

DirPool == {c1, c2, c10, c2_f}
OutPool == {c1_f}
UndecodablePool == {c2, c10}
Langs == {<<"f">>}
AllLangs == Langs \cup {<<"g">>}
ContextArgs == {0, 2}

SourceText(n) ==
    CASE n = c1 -> <<"one", "", "uno">>
      [] n = c2 -> <<"two", "">>
      [] n = c10 -> <<"ten">>
      [] OTHER -> <<"old translation">>

\* what the backend may answer: a text, a blank text, nothing
TranslatedText == <<"la", "traduction">>
BackendReplies == {TranslatedText, <<"">>, <<>>}
NoReply == <<"(no reply)">>

\* the dictionaries of a batch (a well-formed file, a file with a line without ':')
\* and the environments it runs in
GoodDictionary == DictionaryFile(<< <<"g", ":", " ", "c">> >>)
BadDictionary == DictionaryFile(<< <<"g", ":", " ", "c">>, <<"b">> >>)
OtherDictionary == DictionaryFile(<< <<"h", ":", " ", "d">> >>)
ChangedDictionaries == {GoodDictionary, OtherDictionary, BadDictionary, MissingDictionary}
BatchEnvironments ==
    { [dictionary_path |-> NoDictionary,   api_key |-> TRUE],
      [dictionary_path |-> GoodDictionary, api_key |-> TRUE],
      [dictionary_path |-> BadDictionary,  api_key |-> TRUE],
      [dictionary_path |-> NoDictionary,   api_key |-> FALSE] }

NoJobs == [pending |-> {}, opened |-> {}, written |-> {}, failed |-> {}]

FreshRun ==
    /\ pc = "Start"
    /\ ended = ""
    /\ exitStatus = -1
    /\ all_md_files = <<>>
    /\ files_to_process = <<>>
    /\ idx = 0
    /\ processed = 0
    /\ failed = 0
    /\ prev_file = None
    /\ next_file = None
    /\ attempted = {}
    /\ dispatched = {}
    /\ jobFailed = {}
    /\ opened = {}
    /\ written = {}
    /\ calls = 0
    /\ sent = <<>>
    /\ reply = NoReply
    /\ outcome = ""

BatchIdle ==
    /\ inputKind = "none"
    /\ inputFile = None
    /\ outputDirOpt = "none"
    /\ target_lang = <<>>
    /\ context_lines = 0
    /\ dictionary_path = NoDictionary
    /\ api_key = FALSE
    /\ srcDir = <<>>
    /\ outDir = <<>>
    /\ undecodable = {}
    /\ outDirExists = FALSE
    /\ src0 = <<>>
    /\ run = 0
    /\ FreshRun
    /\ atStart = [src |-> {}, out |-> {}, dictionary |-> NoDictionary]
    /\ prevExit = -1
    /\ prevJobs = NoJobs

BatchInit ==
    /\ \E S \in SUBSET DirPool :
         /\ Cardinality(S) <= MaxFiles
         /\ srcDir = [n \in S |-> SourceText(n)]
         /\ \/ inputKind = "dir" /\ inputFile = None
            \/ inputKind = "file" /\ inputFile \in S
            \/ inputKind = "missing" /\ inputFile = None /\ S = {}
    /\ undecodable \in SUBSET (DOMAIN srcDir \cap UndecodablePool)
    /\ outputDirOpt \in {"none", "out"}
    /\ outDir \in {[n \in O |-> <<"old translation">>] : O \in SUBSET OutPool}
    /\ outputDirOpt = "none" => outDir = <<>>
    /\ outDirExists \in BOOLEAN
    /\ outDirExists = FALSE => outDir = <<>>
    /\ outputDirOpt = "none" => outDirExists = FALSE
    /\ target_lang \in Langs
    /\ context_lines \in ContextArgs
    /\ \E env \in BatchEnvironments :
         /\ dictionary_path = env.dictionary_path
         /\ api_key = env.api_key
    /\ src0 = srcDir
    /\ run = 1
    /\ FreshRun
    /\ atStart = [src |-> DOMAIN srcDir, out |-> DOMAIN outDir, dictionary |-> dictionary_path]
    /\ prevExit = -1
    /\ prevJobs = NoJobs

(***************************************************************************)
(* main(): discovery and filter (lines 434-477).                           *)
(***************************************************************************)
Exit(status, how) ==
    /\ pc' = "Done"
    /\ exitStatus' = status
    /\ ended' = how

\* not input_path.exists(): sys.exit(1)
DiscoverMissing ==
    /\ pc = "Start"
    /\ inputKind = "missing"
    /\ Exit(1, "no_input")
    /\ UNCHANGED <<all_md_files, files_to_process, idx, processed, failed, prev_file, next_file>>
    /\ UNCHANGED <<toolVars, sortVars, tfVars, argVars, fsVars, run, histVars>>

\* single file mode: files_to_process = [input_path]
DiscoverFile ==
    /\ pc = "Start"
    /\ inputKind = "file"
    /\ files_to_process' = <<inputFile>>
    /\ pc' = "Loop"
    /\ UNCHANGED <<ended, exitStatus, all_md_files, idx, processed, failed, prev_file, next_file>>
    /\ UNCHANGED <<toolVars, sortVars, tfVars, argVars, fsVars, run, histVars>>

\* directory mode: sort the listing, filter out what is already translated
DiscoverDir ==
    /\ pc = "Start"
    /\ inputKind = "dir"
    /\ \E listing \in Listings(GlobMd) :
         LET sorted  == SortedByNaturalKey(listing)
             pending == FilterPending(sorted.list)
         IN  IF sorted.status = "ValueError"
             THEN /\ Exit(1, "crash")
                  /\ UNCHANGED <<all_md_files, files_to_process>>
             ELSE IF Len(sorted.list) = 0
             THEN /\ Exit(1, "no_md")
                  /\ UNCHANGED <<all_md_files, files_to_process>>
             ELSE IF Len(pending) = 0
             THEN /\ Exit(0, "no_pending")
                  /\ all_md_files' = sorted.list
                  /\ UNCHANGED files_to_process
             ELSE /\ pc' = "Loop"
                  /\ all_md_files' = sorted.list
                  /\ files_to_process' = pending
                  /\ UNCHANGED <<ended, exitStatus>>
    /\ UNCHANGED <<idx, processed, failed, prev_file, next_file>>
    /\ UNCHANGED <<toolVars, sortVars, tfVars, argVars, fsVars, run, histVars>>

(***************************************************************************)
(* main(): one iteration of the loop, up to the call of translate_file     *)
(* (lines 524-603).  The chunk is read for the preview outside any try.    *)
(***************************************************************************)
CurrentFile == files_to_process[idx + 1]

\* a slip: the neighbours are looked for in the work list
Neighbours_FromPending(file_path, listing) ==
    IF context_lines > 0 /\ inputKind = "dir"
    THEN LET current_idx == IndexOf(files_to_process, file_path)
         IN  [prev |-> IF current_idx > 1 THEN files_to_process[current_idx - 1] ELSE None,
              next |-> IF current_idx < Len(files_to_process)
                       THEN files_to_process[current_idx + 1] ELSE None]
    ELSE [prev |-> None, next |-> None]

\* prev_file and next_file (lines 540-579), from a fresh listing of the directory
\* (lines 547-550 leave out the files that carry the target suffix, wherever the
\* listing has them: Preview lists the other files only)
Neighbours(file_path, listing) ==
    IF context_lines > 0 /\ inputKind = "dir"
    THEN LET all_source_files == SortedByNaturalKey(FilterSources(listing)).list
             current_idx      == IndexOf(all_source_files, file_path)
         IN  IF current_idx = 0 THEN [prev |-> None, next |-> None]
             ELSE [prev |-> IF current_idx > 1 THEN all_source_files[current_idx - 1] ELSE None,
                   next |-> IF current_idx < Len(all_source_files)
                            THEN all_source_files[current_idx + 1] ELSE None]
    ELSE [prev |-> None, next |-> None]

\* open(file_path) of line 531 raises (the bytes are not UTF-8): nothing catches it
PreviewCrash ==
    /\ pc = "Loop"
    /\ idx < Len(files_to_process)
    /\ FileAt(CurrentFile).kind = "unreadable"
    /\ attempted' = attempted \cup {CurrentFile}
    /\ Exit(1, "crash")
    /\ UNCHANGED <<all_md_files, files_to_process, idx, processed, failed, prev_file, next_file>>
    /\ UNCHANGED <<atStart, dispatched, jobFailed, opened, written, calls, sent, reply,
                   outcome, prevExit, prevJobs>>
    /\ UNCHANGED <<toolVars, sortVars, tfVars, argVars, fsVars, run>>

Preview ==
    /\ pc = "Loop"
    /\ idx < Len(files_to_process)
    /\ FileAt(CurrentFile).kind = "file"
    /\ attempted' = attempted \cup {CurrentFile}
    /\ \E listing \in Listings({f \in GlobMd : ~HasTargetSuffix(f)}) :
         LET found == Neighbours(CurrentFile, listing)
         IN  /\ prev_file' = found.prev
             /\ next_file' = found.next
    /\ pc' = "Job"
    /\ UNCHANGED <<ended, exitStatus, all_md_files, files_to_process, idx, processed, failed>>
    /\ UNCHANGED <<atStart, dispatched, jobFailed, opened, written, calls, sent, reply,
                   outcome, prevExit, prevJobs>>
    /\ UNCHANGED <<toolVars, sortVars, tfVars, argVars, fsVars, run>>

(***************************************************************************)
(* translate_file inside the try of lines 605-624: the payload, the        *)
(* dictionary, the API key, the backend call, the write.                   *)
(***************************************************************************)
Payload ==
    ContentWithContext(FileAt(CurrentFile).lines, FileAt(prev_file), FileAt(next_file),
                       context_lines)

\* dictionary (lines 296-298): loaded anew by every call of translate_file
Dictionary == load_txt_dictionary(dictionary_path)

\* the full_prompt sent to the provider
Request == FullPrompt(Payload, FormattedPrompt, Dictionary.dictionary)

\* a slip: the key is taken to be there
HasApiKey_Always == TRUE

\* api_key = os.getenv(api_key_env), "if not api_key" (lines 301-304)
HasApiKey == api_key

\* except Exception: failed += 1
JobRaised(how) ==
    /\ outcome' = how
    /\ failed' = failed + 1
    /\ jobFailed' = jobFailed \cup {CurrentFile}
    /\ idx' = idx + 1
    /\ pc' = "Loop"
    /\ UNCHANGED <<ended, exitStatus, all_md_files, files_to_process, processed, prev_file, next_file>>
    /\ UNCHANGED <<atStart, attempted, opened, written, prevExit, prevJobs>>
    /\ UNCHANGED <<toolVars, sortVars, tfVars, argVars, fsVars, run>>

BackendCalled(returned) ==
    /\ calls' = calls + 1
    /\ dispatched' = dispatched \cup {CurrentFile}
    /\ sent' = Request
    /\ reply' = returned

\* load_txt_dictionary raises (lines 70-71, 82-96): the job fails before the key is looked up
JobDictionaryError ==
    /\ pc = "Job"
    /\ Dictionary.status # "ok"
    /\ JobRaised("dictionary")
    /\ UNCHANGED <<calls, dispatched, sent, reply>>

\* os.getenv finds no API key (lines 302-305): ValueError, the backend is not called
JobNoKey ==
    /\ pc = "Job"
    /\ Dictionary.status = "ok"
    /\ ~HasApiKey
    /\ JobRaised("no_key")
    /\ UNCHANGED <<calls, dispatched, sent, reply>>

\* the provider's client raises (network, provider side)
JobTransportError ==
    /\ pc = "Job"
    /\ Dictionary.status = "ok"
    /\ HasApiKey
    /\ BackendCalled(NoReply)
    /\ JobRaised("transport")

\* the reply is empty or blank (lines 136-138, 165-167): ValueError
JobEmptyReply ==
    /\ pc = "Job"
    /\ Dictionary.status = "ok"
    /\ HasApiKey
    /\ \E returned \in BackendReplies :
         /\ IsBlankText(returned)
         /\ BackendCalled(returned)
    /\ JobRaised("empty")

\* wrap_markdown_lines (utils/text.py), as main calls translate_file without
\* --no-wrap: the lines of a paragraph are joined by a space and filled to
\* the width, which no paragraph here exceeds; an empty line is kept and
\* ends the paragraph (headers, code fences and table rows, kept as well,
\* are not among the replies)
RECURSIVE WrapFrom(_, _, _)
WrapFrom(lines, paragraph, acc) ==
    LET flushed == IF paragraph = "" THEN acc ELSE Append(acc, paragraph)
    IN  IF Len(lines) = 0 THEN flushed
        ELSE IF IsBlankLine(lines[1])
             THEN WrapFrom(Tail(lines), "", Append(flushed, lines[1]))
             ELSE WrapFrom(Tail(lines),
                           IF paragraph = "" THEN lines[1] ELSE paragraph \o " " \o lines[1],
                           acc)

wrap_markdown_lines(content) == WrapFrom(content, "", <<>>)

\* os.makedirs(output_dir, exist_ok=True) (line 343), then open(output_path, 'w')
\* followed by f.write(text) (lines 346-347)
WriteArtifact(text) ==
    /\ IF ConfiguredOutputDir = "src"
       THEN /\ srcDir' = Put(srcDir, OutputFileName(CurrentFile), text)
            /\ undecodable' = undecodable \ {OutputFileName(CurrentFile)}
            /\ UNCHANGED <<outDir, outDirExists>>
       ELSE /\ outDirExists' = TRUE
            /\ outDir' = Put(outDir, OutputFileName(CurrentFile), text)
            /\ UNCHANGED <<srcDir, undecodable>>
    /\ opened' = opened \cup {<<ConfiguredOutputDir, OutputFileName(CurrentFile), CurrentFile>>}
    /\ UNCHANGED src0

\* the reply is a text: it is written to output_dir / output_filename (lines 337-347)
JobSucceeds ==
    /\ pc = "Job"
    /\ Dictionary.status = "ok"
    /\ HasApiKey
    /\ \E returned \in BackendReplies :
         /\ ~IsBlankText(returned)
         /\ BackendCalled(returned)
         /\ WriteArtifact(wrap_markdown_lines(returned))
    /\ written' = written \cup {<<ConfiguredOutputDir, OutputFileName(CurrentFile), CurrentFile>>}
    /\ outcome' = "ok"
    /\ processed' = processed + 1
    /\ idx' = idx + 1
    /\ pc' = "Loop"
    /\ UNCHANGED <<ended, exitStatus, all_md_files, files_to_process, failed, prev_file, next_file>>
    /\ UNCHANGED <<atStart, attempted, jobFailed, prevExit, prevJobs>>
    /\ UNCHANGED <<toolVars, sortVars, tfVars, argVars, run>>

\* the loop is over: sys.exit(1) if failed > 0, else the process ends with 0
Finish ==
    /\ pc = "Loop"
    /\ idx = Len(files_to_process)
    /\ Exit(FinalExitStatus(failed), "loop_end")
    /\ UNCHANGED <<all_md_files, files_to_process, idx, processed, failed, prev_file, next_file>>
    /\ UNCHANGED <<toolVars, sortVars, tfVars, argVars, fsVars, run, histVars>>

(***************************************************************************)
(* Ctrl+C: KeyboardInterrupt is no Exception, the except of line 622 lets  *)
(* it through to lines 644-646, sys.exit(130).                             *)
(***************************************************************************)
\* the interrupt arrives in a job, outside the write of the artifact
Interrupt ==
    /\ pc = "Job"
    /\ Exit(130, "interrupted")
    /\ UNCHANGED <<all_md_files, files_to_process, idx, processed, failed, prev_file, next_file>>
    /\ UNCHANGED <<toolVars, sortVars, tfVars, argVars, fsVars, run, histVars>>

\* the interrupt arrives after open(output_path, 'w') has created or emptied
\* the file and before f.write(translated): the file is closed empty
InterruptedWrite ==
    /\ pc = "Job"
    /\ Dictionary.status = "ok"
    /\ HasApiKey
    /\ \E returned \in BackendReplies :
         /\ ~IsBlankText(returned)
         /\ BackendCalled(returned)
    /\ WriteArtifact(<<>>)
    /\ outcome' = "interrupted"
    /\ Exit(130, "interrupted")
    /\ UNCHANGED <<all_md_files, files_to_process, idx, processed, failed, prev_file, next_file>>
    /\ UNCHANGED <<atStart, attempted, jobFailed, written, prevExit, prevJobs>>
    /\ UNCHANGED <<toolVars, sortVars, tfVars, argVars, run>>

\* the process has ended and main() is started again on what the last run left
Restart ==
    /\ pc = "Done"
    /\ prevExit' = exitStatus
    /\ prevJobs' = [pending |-> {files_to_process[i] : i \in 1..Len(files_to_process)},
                    opened  |-> {w[3] : w \in opened},
                    written |-> {w[3] : w \in written},
                    failed  |-> jobFailed]
    /\ pc' = "Start"
    /\ ended' = ""
    /\ exitStatus' = -1
    /\ all_md_files' = <<>>
    /\ files_to_process' = <<>>
    /\ idx' = 0
    /\ processed' = 0
    /\ failed' = 0
    /\ prev_file' = None
    /\ next_file' = None
    /\ attempted' = {}
    /\ dispatched' = {}
    /\ jobFailed' = {}
    /\ opened' = {}
    /\ written' = {}
    /\ calls' = 0
    /\ sent' = <<>>
    /\ reply' = NoReply
    /\ outcome' = ""
    /\ UNCHANGED <<toolVars, sortVars, tfVars, fsVars>>

StartAgain ==
    /\ run < MaxRuns
    /\ run' = run + 1
    /\ Restart

\* the same command is run again
Rerun ==
    /\ StartAgain
    /\ atStart' = [src |-> DOMAIN srcDir, out |-> DOMAIN outDir, dictionary |-> dictionary_path]
    /\ UNCHANGED argVars

\* the same command is run again, as often as the user likes: the runs past
\* MaxRuns are not told apart
NextRun(r) == IF r < MaxRuns THEN r + 1 ELSE r
RerunAgain ==
    /\ run' = NextRun(run)
    /\ Restart
    /\ atStart' = [src |-> DOMAIN srcDir, out |-> DOMAIN outDir, dictionary |-> dictionary_path]
    /\ UNCHANGED argVars

\* the command is run again on the same directory with another --target-lang
RerunOtherLanguage ==
    /\ StartAgain
    /\ target_lang' \in AllLangs \ {target_lang}
    /\ atStart' = [src |-> DOMAIN srcDir, out |-> DOMAIN outDir, dictionary |-> dictionary_path]
    /\ UNCHANGED <<inputKind, inputFile, outputDirOpt, context_lines, dictionary_path, api_key>>

\* the file --dictionary names is edited, made invalid or removed by its owner
\* while the batch is running, between two jobs
DictionaryChanges ==
    /\ pc = "Loop"
    /\ idx >= 1
    /\ dictionary_path # NoDictionary
    /\ dictionary_path = atStart.dictionary
    /\ dictionary_path' \in ChangedDictionaries \ {dictionary_path}
    /\ UNCHANGED <<inputKind, inputFile, outputDirOpt, target_lang, context_lines, api_key>>
    /\ UNCHANGED <<toolVars, sortVars, tfVars, fsVars, runVars, histVars>>

Init == BatchInit /\ SortIdle /\ TfIdle /\ ToolIdle

Next ==
    \/ DiscoverMissing
    \/ DiscoverFile
    \/ DiscoverDir
    \/ PreviewCrash
    \/ Preview
    \/ JobDictionaryError
    \/ JobNoKey
    \/ JobTransportError
    \/ JobEmptyReply
    \/ JobSucceeds
    \/ Finish
    \/ Interrupt
    \/ InterruptedWrite
    \/ Rerun

Spec == Init /\ [][Next]_vars

\* a directory of source chunks translated into one language and then into
\* another, the dictionary file being changed under a running batch
InitChanges ==
    /\ BatchInit
    /\ inputKind = "dir"
    /\ outputDirOpt = "none"
    /\ DOMAIN srcDir \subseteq {c1, c2}
    /\ undecodable = {}
    /\ api_key
    /\ dictionary_path \in {NoDictionary, GoodDictionary}
    /\ SortIdle /\ TfIdle /\ ToolIdle

NextChanges ==
    \/ DiscoverDir
    \/ Preview
    \/ JobDictionaryError
    \/ JobTransportError
    \/ JobEmptyReply
    \/ JobSucceeds
    \/ Finish
    \/ RerunOtherLanguage
    \/ DictionaryChanges

SpecChanges == InitChanges /\ [][NextChanges]_vars

\* a directory translated into its own directory by as many runs as it takes.
\* The process runs on and the user runs the command again: a step of
\* NextResume is possible in every state, so that "steps are taken again and
\* again" is WF_vars(NextResume); and the backend answers with a text in the
\* end: SF_vars(JobSucceeds)
InitResume ==
    /\ BatchInit
    /\ inputKind = "dir"
    /\ outputDirOpt = "none"
    /\ DOMAIN srcDir \cap {c1, c2, c10} # {}
    /\ undecodable = {}
    /\ api_key
    /\ dictionary_path = NoDictionary
    /\ SortIdle /\ TfIdle /\ ToolIdle

NextResume ==
    \/ DiscoverDir
    \/ Preview
    \/ JobTransportError
    \/ JobEmptyReply
    \/ JobSucceeds
    \/ Finish
    \/ Interrupt
    \/ InterruptedWrite
    \/ RerunAgain

SpecResume ==
    /\ InitResume
    /\ [][NextResume]_vars
    /\ []<><<NextResume>>_vars
    /\ SF_vars(JobSucceeds)

\* the directory sort alone
InitSort == SortInit /\ TfIdle /\ BatchIdle /\ ToolIdle
NextSort ==
    \/ SortListing /\ UNCHANGED <<tfVars, argVars, fsVars, runVars, histVars, toolVars>>
    \/ SortRaises /\ UNCHANGED <<tfVars, argVars, fsVars, runVars, histVars, toolVars>>
SpecSort == InitSort /\ [][NextSort]_vars

\* translate_file's payload alone
InitPayload == TfInit /\ SortIdle /\ BatchIdle /\ ToolIdle
NextPayload == BuildPayload /\ UNCHANGED <<sortVars, argVars, fsVars, runVars, histVars, toolVars>>
SpecPayload == InitPayload /\ [][NextPayload]_vars

\* translate_file's request, with a dictionary
InitRequest == RequestInit /\ SortIdle /\ BatchIdle /\ ToolIdle
NextRequest == BuildPayload /\ UNCHANGED <<sortVars, argVars, fsVars, runVars, histVars, toolVars>>
SpecRequest == InitRequest /\ [][NextRequest]_vars

(***************************************************************************)
(* The claims.                                                             *)
(***************************************************************************)
\* the directory the spec calls the configured output directory, as the run found it
ConfiguredAtStart == IF outputDirOpt = "none" THEN atStart.src ELSE atStart.out

\* the artifact name the spec gives: {stem}_{target}.md
ArtifactOf(f) == Stem(f) \o <<"_">> \o target_lang \o MdSuffix

\* the source chunks of a batch: the *.md files of the directory that carry no
\* target-language suffix, or the one input file
IsSourceChunk(n) ==
    IF inputKind = "file" THEN n = inputFile
    ELSE EndsWith(n, MdSuffix) /\ ~EndsWith(Stem(n), <<"_">> \o target_lang)

\* C1: a second run on the same input with the same target language, after a
\* run in which every job succeeded, makes no backend call (idempotence of
\* the batch, for a directory or a single file and any --output-dir).
C1_SecondRunMakesNoCall ==
    (run >= 2 /\ prevExit = 0) => calls = 0

\* C2: in directory mode, a chunk whose artifact {stem}_{target}.md was in the
\* configured output directory when the run started is skipped: the backend
\* is never called for it in that run.
C2_ExistingArtifactIsSkipped ==
    inputKind = "dir" =>
        \A f \in atStart.src :
            (IsSourceChunk(f) /\ ArtifactOf(f) \in ConfiguredAtStart)
                => (f \notin attempted /\ f \notin dispatched)

\* the chunks that failed in this run: those whose translate_file raised, and
\* the one whose iteration an uncaught error ended
FailedChunks ==
    jobFailed \cup (IF ended = "crash" /\ idx < Len(files_to_process)
                    THEN {files_to_process[idx + 1]} ELSE {})

\* C3: whatever chunks fail, the loop reaches the last pending chunk: when a
\* run that no interrupt cut short is over, every pending chunk was attempted,
\* every pending chunk whose job did not fail has its artifact, and failed
\* counts the failed jobs.
C3_FailureNeverStopsLoop ==
    (pc = "Done" /\ ended # "interrupted" /\ Len(files_to_process) > 0) =>
        /\ \A i \in 1..Len(files_to_process) : files_to_process[i] \in attempted
        /\ \A i \in 1..Len(files_to_process) :
             files_to_process[i] \notin FailedChunks
                => <<ConfiguredOutputDir, ArtifactOf(files_to_process[i]), files_to_process[i]>>
                       \in written
        /\ failed = Cardinality(FailedChunks)

\* C4 as stated: the exit status (of a run that no interrupt cut short) is 0
\* whenever no job failed, every run that dispatched nothing included, and
\* nonzero exactly when failed > 0.
C4_ExitStatusAsStated ==
    (pc = "Done" /\ ended # "interrupted") =>
        /\ jobFailed = {} => exitStatus = 0
        /\ exitStatus # 0 <=> failed > 0

\* C4 as amended: the exit status is 0 exactly when the run ended normally
\* with failed = 0 (the loop ran to its end, or directory mode found .md
\* files and none pending); it is 1 when the loop ended with failed > 0, and
\* also, with no job dispatched, when the input does not exist or the
\* directory holds no .md file, and when an uncaught error ended the run; it
\* is 130 exactly when Ctrl+C ended the run.
C4_ExitStatus ==
    pc = "Done" =>
        /\ exitStatus \in {0, 1, 130}
        /\ exitStatus = 130 <=> ended = "interrupted"
        /\ exitStatus = 0 <=> (ended \in {"no_pending", "loop_end"} /\ failed = 0)
        /\ ended = "loop_end" => (exitStatus = 1 <=> failed > 0)
        /\ ended \in {"no_input", "no_md", "no_pending"} => (calls = 0 /\ attempted = {})

C4_Witness ==
    /\ pc = "Done"
    /\ ended = "loop_end"
    /\ processed > 0
    /\ failed > 0
    /\ exitStatus = 1

\* every *.md file the directory held at the start of the run was already translated
AllTranslatedAtStart ==
    LET md == {n \in atStart.src : EndsWith(n, MdSuffix)}
    IN  /\ md # {}
        /\ \A f \in md : EndsWith(Stem(f), <<"_">> \o target_lang) \/ ArtifactOf(f) \in atStart.src

\* C5: in directory mode, when every chunk is already translated the run goes
\* from the filter straight to Done with exit status 0: no loop iteration,
\* no backend call, no file written.
C5_ZeroPendingIsSuccess ==
    (inputKind = "dir" /\ pc # "Start" /\ AllTranslatedAtStart) =>
        /\ pc = "Done"
        /\ ended = "no_pending"
        /\ exitStatus = 0
        /\ attempted = {}
        /\ calls = 0
        /\ written = {}
        /\ DOMAIN srcDir = atStart.src
        /\ DOMAIN outDir = atStart.out

C5_Witness ==
    /\ inputKind = "dir"
    /\ pc = "Done"
    /\ ended = "no_pending"
    /\ \E f \in atStart.src : IsSourceChunk(f) /\ ArtifactOf(f) \in atStart.src

\* C10: a successful job writes exactly one file, {stem}_{target}.md in the
\* output directory; that path is no source chunk's, no source chunk is ever
\* created, overwritten or modified, no job opens another file for writing,
\* and two chunks never write the same file.
C10_ArtifactNaming ==
    /\ \A w \in written :
         /\ w[1] = (IF outputDirOpt = "none" THEN "src" ELSE "out")
         /\ w[2] = ArtifactOf(w[3])
         /\ ~(w[1] = "src" /\ IsSourceChunk(w[2]))
    /\ Cardinality(written) = processed
    /\ written \subseteq opened
    /\ \A w \in opened : w[2] = ArtifactOf(w[3])
    /\ DOMAIN srcDir = atStart.src \cup {w[2] : w \in {x \in opened : x[1] = "src"}}
    /\ DOMAIN outDir = atStart.out \cup {w[2] : w \in {x \in opened : x[1] = "out"}}
    /\ \A n \in DOMAIN src0 : IsSourceChunk(n) => (n \in DOMAIN srcDir /\ srcDir[n] = src0[n])
    /\ \A n \in DOMAIN srcDir : IsSourceChunk(n) => n \in DOMAIN src0
    /\ \A v, w \in written : v[3] # w[3] => v[2] # w[2]

C10_Witness ==
    /\ pc = "Done"
    /\ outputDirOpt = "none"
    /\ processed >= 2
    /\ \E w \in written :
         w[3] = c10 /\ w[2] \in DOMAIN srcDir /\ srcDir[w[2]] = <<"la traduction">>

\* the lines of a text that line.strip() leaves non-empty
RECURSIVE NonBlank(_)
NonBlank(t) ==
    IF Len(t) = 0 THEN <<>>
    ELSE IF IsBlankLine(t[1]) THEN NonBlank(Tail(t))
    ELSE <<t[1]>> \o NonBlank(Tail(t))

\* the last n elements of a sequence, all of it when it has fewer
LastN(t, n) == IF Len(t) <= n THEN t ELSE SubSeq(t, Len(t) - n + 1, Len(t))

\* C7: with context_lines <= 0 both context sides are empty and the payload
\* is the chunk's text, with no marker, whatever the neighbours are.
C7_ContextDisabled ==
    (tfOut.status = "built" /\ tfArgs.context_lines <= 0) =>
        /\ tfOut.prev_lines = <<>>
        /\ tfOut.next_lines = <<>>
        /\ tfOut.payload = tfArgs.content
        /\ \A i \in 1..Len(tfOut.payload) : tfOut.payload[i] \notin Markers

C7_Witness ==
    /\ tfOut.status = "built"
    /\ tfArgs.context_lines = 0
    /\ tfArgs.prev_file.kind = "file" /\ ~IsBlankText(tfArgs.prev_file.lines)
    /\ tfArgs.next_file.kind = "file" /\ ~IsBlankText(tfArgs.next_file.lines)
    /\ tfArgs.content # <<>>
    /\ tfOut.payload = tfArgs.content

\* C8: with context_lines = N > 0 each side's context has at most N lines and
\* no more lines than the neighbour has; a previous chunk with k < N
\* non-empty lines gives a prefix context of exactly k lines.
C8_ContextBounded ==
    (tfOut.status = "built" /\ tfArgs.context_lines > 0) =>
        /\ Len(tfOut.prev_lines) <= tfArgs.context_lines
        /\ Len(tfOut.next_lines) <= tfArgs.context_lines
        /\ Len(tfOut.prev_lines) <= Len(tfArgs.prev_file.lines)
        /\ Len(tfOut.next_lines) <= Len(tfArgs.next_file.lines)
        /\ (tfArgs.prev_file.kind = "file"
              /\ Len(NonBlank(tfArgs.prev_file.lines)) < tfArgs.context_lines)
             => Len(tfOut.prev_lines) = Len(NonBlank(tfArgs.prev_file.lines))

\* C9: with a previous chunk and context_lines = N > 0 the prefix context of
\* the request is the last N non-empty lines of the previous chunk (all of
\* them when there are fewer); no blank line is part of it.
C9_TrailingContextSkipsBlanks ==
    (tfOut.status = "built" /\ tfArgs.context_lines > 0 /\ tfArgs.prev_file.kind = "file") =>
        /\ tfOut.prev_lines = LastN(NonBlank(tfArgs.prev_file.lines), tfArgs.context_lines)
        /\ \A i \in 1..Len(tfOut.prev_lines) : ~IsBlankLine(tfOut.prev_lines[i])

\* the order the spec describes: the names' runs compared place by place,
\* digit runs by value, text runs as lower-case text; a name that is a
\* prefix of the other comes first
RECURSIVE RunsLess(_, _, _)
RunsLess(a, b, i) ==
    IF i > Len(b) THEN FALSE
    ELSE IF i > Len(a) THEN TRUE
    ELSE IF i % 2 = 0
         THEN IF IntValue(a[i]) # IntValue(b[i]) THEN IntValue(a[i]) < IntValue(b[i])
              ELSE RunsLess(a, b, i + 1)
         ELSE IF LowerStr(a[i]) # LowerStr(b[i]) THEN StrLess(LowerStr(a[i]), LowerStr(b[i]))
              ELSE RunsLess(a, b, i + 1)

NaturallyBefore(x, y) == RunsLess(SplitDigits(x), SplitDigits(y), 1)

InNaturalOrder(list) ==
    \A i, j \in 1..Len(list) : i < j => ~NaturallyBefore(list[j], list[i])

\* C6: for any set of file names the sort by natural_sort_key puts them in
\* the numeric-aware order: digit runs by integer value, text runs
\* case-insensitively, place by place.
C6_NumericAwareOrder ==
    sortedList.status \notin {"none", "unsorted"} =>
        /\ sortedList.status = "sorted"
        /\ {sortedList.list[i] : i \in 1..Len(sortedList.list)}
             = {globList[i] : i \in 1..Len(globList)}
        /\ InNaturalOrder(sortedList.list)

\* the same order, of the listings no key of which raises
SortedListingsAreInNaturalOrder ==
    sortedList.status = "sorted" =>
        /\ {sortedList.list[i] : i \in 1..Len(sortedList.list)}
             = {globList[i] : i \in 1..Len(globList)}
        /\ InNaturalOrder(sortedList.list)

\* a dictionary line as the format describes it: its text is what is left
\* between its first and its last character that is not white space
TextPlaces(l) == {i \in 1..Len(l) : l[i] # " "}
Trimmed(l) ==
    IF TextPlaces(l) = {} THEN <<>>
    ELSE LET first == CHOOSE i \in TextPlaces(l) : \A j \in TextPlaces(l) : i <= j
             last  == CHOOSE i \in TextPlaces(l) : \A j \in TextPlaces(l) : j <= i
         IN  SubSeq(l, first, last)
IsBlankDictLine(l) == TextPlaces(l) = {}
IsCommentLine(l) == ~IsBlankDictLine(l) /\ Trimmed(l)[1] = "#"
ColonPlaces(l) == {i \in 1..Len(l) : l[i] = ":"}
TermOf(l) ==
    LET k == CHOOSE i \in ColonPlaces(l) : \A j \in ColonPlaces(l) : i <= j
    IN  Trimmed(SubSeq(l, 1, k - 1))
TranslationsOf(l) ==
    LET k == CHOOSE i \in ColonPlaces(l) : \A j \in ColonPlaces(l) : i <= j
    IN  Trimmed(SubSeq(l, k + 1, Len(l)))
HasTermForm(l) == ColonPlaces(l) # {} /\ TermOf(l) # <<>> /\ TranslationsOf(l) # <<>>
IsEntryLine(l) == ~IsBlankDictLine(l) /\ ~IsCommentLine(l)
WellFormedDictionary(d) ==
    d.kind = "file" /\ \A i \in 1..Len(d.lines) : IsEntryLine(d.lines[i]) => HasTermForm(d.lines[i])
MalformedDictionary(d) ==
    d.kind = "file" /\ \E i \in 1..Len(d.lines) : IsEntryLine(d.lines[i]) /\ ~HasTermForm(d.lines[i])

RECURSIVE ExpectedEntries(_)
ExpectedEntries(lines) ==
    IF Len(lines) = 0 THEN <<>>
    ELSE IF IsEntryLine(lines[1])
         THEN <<TermOf(lines[1]) \o <<" ", "-", ">", " ">> \o TranslationsOf(lines[1])>>
                  \o ExpectedEntries(Tail(lines))
         ELSE ExpectedEntries(Tail(lines))

\* the places of a request that hold a part of the given kind
PartPlaces(req, kind) == {i \in 1..Len(req) : req[i].part = kind}

\* the entries a request lists, in its order
RequestEntries(req) ==
    IF PartPlaces(req, "dictionary") = {} THEN <<>>
    ELSE req[CHOOSE i \in PartPlaces(req, "dictionary") : TRUE].entries

\* C11: for a dictionary file whose lines, blank lines and comments (lines
\* whose first character after trimming is '#') apart, all have the form
\* 'term: translations', the request is built and lists exactly the entries
\* 'term -> translations' of those lines, trimmed and split at the first ':',
\* in file order; blank lines and comments add nothing.
C11_DictionaryRoundTrip ==
    (tfOut.status # "none" /\ WellFormedDictionary(tfArgs.dictionary_path)) =>
        /\ tfOut.status = "built"
        /\ RequestEntries(tfOut.full_prompt) = ExpectedEntries(tfArgs.dictionary_path.lines)
        /\ Cardinality(PartPlaces(tfOut.full_prompt, "dictionary")) <= 1

C11_Witness ==
    /\ tfOut.status = "built"
    /\ tfArgs.dictionary_path = DictionaryFile(<< <<"a", ":", "b", ":", "c">>,
                                                  <<" ", "p", " ", ":", "d", " ">> >>)
    /\ RequestEntries(tfOut.full_prompt)
         = << <<"a", " ", "-", ">", " ", "b", ":", "c">>, <<"p", " ", "-", ">", " ", "d">> >>

\* C12: with a dictionary file that has a line (no blank line, no comment)
\* without ':' or with an empty term or translation, a batch of any size
\* calls the backend for no chunk and writes no artifact: the directories
\* stay as the run found them.
C12_MalformedDictionaryDispatchesNothing ==
    MalformedDictionary(dictionary_path) =>
        /\ calls = 0
        /\ dispatched = {}
        /\ opened = {}
        /\ written = {}
        /\ srcDir = src0
        /\ DOMAIN outDir = atStart.out

C12_Witness ==
    /\ MalformedDictionary(dictionary_path)
    /\ pc = "Done"
    /\ ended = "loop_end"
    /\ Cardinality(attempted) >= 2
    /\ failed = Cardinality(attempted)
    /\ outcome = "dictionary"

\* the chunk whose job ended last, and the files opened for it
LastChunk == files_to_process[idx]
OpenedFor(f) == {w \in opened : w[3] = f}

\* after the job of the last chunk failed the loop went on: the run is in the
\* loop, or it ended after the last pending chunk, or at a later chunk
LoopWentOn ==
    \/ pc \in {"Loop", "Job"}
    \/ pc = "Done" /\ idx = Len(files_to_process)
    \/ pc = "Done" /\ ended \in {"crash", "interrupted"} /\ files_to_process[idx + 1] \in attempted

\* C13: when the backend returns an empty or a blank text for a chunk, the
\* job fails: nothing is written for the chunk, it is counted as failed, the
\* loop goes on; and in one run the backend is called at most once for a chunk.
C13_EmptyResultIsHardFailure ==
    /\ calls = Cardinality(dispatched)
    /\ (calls > 0 /\ NonBlank(reply) = <<>>) =>
          /\ idx >= 1
          /\ LastChunk \in dispatched
          /\ LastChunk \in jobFailed
          /\ OpenedFor(LastChunk) = {}
          /\ failed = Cardinality(jobFailed)
          /\ LoopWentOn

C13_Witness ==
    /\ pc = "Job"
    /\ reply = <<"">>
    /\ outcome = "empty"
    /\ CurrentFile # LastChunk
    /\ failed = 1

\* C18: with no API key in the environment every job fails at the lookup:
\* the backend is not called, nothing is written, each chunk is counted as
\* one failed chunk and the loop goes on to the next chunk, whose job fails
\* at its own lookup; with the key there, no job fails for it.
C18_MissingCredentialIsPerJob ==
    /\ outcome = "no_key" =>
          /\ ~api_key
          /\ idx >= 1
          /\ LastChunk \in jobFailed
          /\ LastChunk \notin dispatched
          /\ OpenedFor(LastChunk) = {}
          /\ LoopWentOn
    /\ (~api_key /\ Dictionary.status = "ok") =>
          /\ calls = 0
          /\ opened = {}
          /\ jobFailed = {files_to_process[i] : i \in 1..idx}
          /\ failed = idx

C18_Witness ==
    /\ ~api_key
    /\ pc = "Done"
    /\ ended = "loop_end"
    /\ failed >= 2
    /\ processed = 0
    /\ exitStatus = 1

\* the content payload of a request, and whether a text holds a run of lines
TextOf(req) == req[CHOOSE i \in PartPlaces(req, "text") : TRUE].lines
ContainsRun(text, r) ==
    \E i \in 1..(Len(text) - Len(r) + 1) : SubSeq(text, i, i + Len(r) - 1) = r
FirstN(t, n) == IF Len(t) <= n THEN t ELSE SubSeq(t, 1, n)

\* the job of the last chunk is over and its neighbours are still in
\* prev_file and next_file
LastJobOver == pc = "Loop" /\ idx >= 1
NeighbourUnreadable(name) == name # None /\ FileAt(name).kind = "unreadable"
NeighbourReadable(name) == name # None /\ FileAt(name).kind = "file"

\* C14: a neighbour that cannot be read gives no context on its side and
\* leaves the other side as it is; the job goes on to the backend (when the
\* dictionary loads and the key is there) and is not counted as failed for it.
C14_NeighbourReadFailureDegrades ==
    (LastJobOver /\ (NeighbourUnreadable(prev_file) \/ NeighbourUnreadable(next_file))) =>
        /\ (Dictionary.status = "ok" /\ api_key) =>
              /\ LastChunk \in dispatched
              /\ LastChunk \in jobFailed => outcome \in {"transport", "empty"}
        /\ LastChunk \in dispatched =>
              /\ NeighbourUnreadable(prev_file) =>
                    \A i \in 1..Len(TextOf(sent)) : TextOf(sent)[i] \notin {PrevHeader, PrevFooter}
              /\ NeighbourUnreadable(next_file) =>
                    \A i \in 1..Len(TextOf(sent)) : TextOf(sent)[i] \notin {NextHeader, NextFooter}
              /\ (NeighbourReadable(next_file) /\ context_lines > 0) =>
                    ContainsRun(TextOf(sent),
                                <<NextHeader>> \o FirstN(FileAt(next_file).lines, context_lines)
                                    \o <<NextFooter>>)
              /\ (NeighbourReadable(prev_file) /\ context_lines > 0) =>
                    ContainsRun(TextOf(sent),
                                <<PrevHeader>> \o LastN(FileAt(prev_file).lines, context_lines)
                                    \o <<PrevFooter>>)
              /\ ContainsRun(TextOf(sent), FileAt(LastChunk).lines)

C14_Witness ==
    /\ LastJobOver
    /\ NeighbourReadable(prev_file)
    /\ NeighbourUnreadable(next_file)
    /\ outcome = "ok"
    /\ OpenedFor(LastChunk) # {}

\* C15: no error that arises while one pending chunk is processed ends the
\* batch (the dictionary's apart, which in the code ends no batch either): a
\* run that no interrupt cut short and that started a chunk ends at the end
\* of the loop with every pending chunk attempted and counted once, a chunk
\* whose own file cannot be read among the failed ones.
C15_ErrorsAreScopedToOneChunk ==
    (pc = "Done" /\ ended # "interrupted" /\ attempted # {}) =>
        /\ ended = "loop_end"
        /\ attempted = {files_to_process[i] : i \in 1..Len(files_to_process)}
        /\ processed + failed = Len(files_to_process)
        /\ \A f \in attempted : FileAt(f).kind = "unreadable" => f \in jobFailed

\* the files at an artifact path {stem}_{target}.md, in either directory
ArtifactTexts ==
    {srcDir[n] : n \in {m \in DOMAIN srcDir : EndsWith(Stem(m), <<"_">> \o target_lang)}}
        \cup {outDir[n] : n \in {m \in DOMAIN outDir : EndsWith(Stem(m), <<"_">> \o target_lang)}}

\* C16: in every state, the states after Ctrl+C included, every file at an
\* artifact path holds a whole translation: none is empty or cut short.
C16_ArtifactsAreComplete ==
    \A t \in ArtifactTexts : NonBlank(t) # <<>>

\* the elements of a sequence, and sequences without a repeated element
Elems(q) == {q[i] : i \in 1..Len(q)}
NoRepeat(q) == \A i, j \in 1..Len(q) : i # j => q[i] # q[j]

\* a chunk is already translated: its stem ends with _{target}, or a file
\* {stem}_{target}.md was beside it when the run started
AlreadyTranslated(f) ==
    EndsWith(Stem(f), <<"_">> \o target_lang) \/ ArtifactOf(f) \in atStart.src

\* C17: in directory mode every *.md file of the directory is in exactly one
\* class: already translated, exactly when its stem ends with _{target} or a
\* file {stem}_{target}.md exists beside it, or pending; the pending list
\* keeps the natural order; and the step that classifies changes no file.
C17_CompletionTrackerPartition ==
    /\ [](   (inputKind = "dir" /\ all_md_files # <<>>) =>
                /\ Elems(all_md_files) = {n \in atStart.src : EndsWith(n, MdSuffix)}
                /\ NoRepeat(all_md_files)
                /\ NoRepeat(files_to_process)
                /\ Elems(files_to_process) = {f \in Elems(all_md_files) : ~AlreadyTranslated(f)}
                /\ InNaturalOrder(files_to_process))
    /\ [][pc = "Start" => UNCHANGED fsVars]_vars

C17_Witness ==
    /\ inputKind = "dir"
    /\ pc = "Loop"
    /\ attempted = {}
    /\ Len(files_to_process) = 2
    /\ \E f \in Elems(all_md_files) : EndsWith(Stem(f), <<"_">> \o target_lang)
    /\ \E f \in Elems(all_md_files) :
         /\ ~EndsWith(Stem(f), <<"_">> \o target_lang)
         /\ ArtifactOf(f) \in atStart.src

\* the first k pending chunks
FirstPending(k) == {files_to_process[i] : i \in 1..k}

\* C19: the pending chunks are taken one at a time in natural order: the
\* jobs that are over are those of the first idx pending chunks, at most
\* one more chunk, the next one, has been started, and a chunk is sent to
\* the backend or written only once it has been started.
C19_SequentialOrderedDispatch ==
    /\ InNaturalOrder(files_to_process)
    /\ NoRepeat(files_to_process)
    /\ idx <= Len(files_to_process)
    /\ processed + failed = idx
    /\ FirstPending(idx) \subseteq attempted
    /\ attempted \ FirstPending(idx) \subseteq
          (IF idx < Len(files_to_process) THEN {files_to_process[idx + 1]} ELSE {})
    /\ pc = "Job" => attempted = FirstPending(idx + 1)
    /\ dispatched \subseteq attempted
    /\ {w[3] : w \in opened} \subseteq dispatched
    /\ jobFailed \subseteq FirstPending(idx)
    /\ {w[3] : w \in written} \subseteq FirstPending(idx)

C19_Witness ==
    /\ pc = "Job"
    /\ idx = 2
    /\ files_to_process = <<c1, c2, c10>>
    /\ Cardinality(dispatched) = 2

\* the places of a line in a text
LinePlaces(text, l) == {i \in 1..Len(text) : text[i] = l}
Present(text, l) == LinePlaces(text, l) # {}
Before(text, a, b) == \A i \in LinePlaces(text, a) : \A j \in LinePlaces(text, b) : i < j

\* C20: the request is the prompt, then the dictionary section when the
\* dictionary has an entry, then the content payload.  The payload has the
\* MAIN CONTENT markers exactly when a context side is non-empty; the
\* previous-chunk block is there exactly when the prefix context is
\* non-empty, and then before the main block; the next-chunk block exactly
\* when the suffix context is non-empty, and then after the main block; the
\* chunk's text stands unchanged between the main markers (it is the whole
\* payload when there is no context).
C20_RequestAssemblyStructure ==
    tfOut.status = "built" =>
        LET req     == tfOut.full_prompt
            text    == TextOf(req)
            hasPrev == tfOut.prev_lines # <<>>
            hasNext == tfOut.next_lines # <<>>
            entries == ExpectedEntries(tfArgs.dictionary_path.lines)
        IN  /\ req[1].part = "prompt"
            /\ req[Len(req)].part = "text"
            /\ Cardinality(PartPlaces(req, "prompt")) = 1
            /\ Cardinality(PartPlaces(req, "text")) = 1
            /\ PartPlaces(req, "dictionary") = (IF entries # <<>> THEN {2} ELSE {})
            /\ text = tfOut.payload
            /\ Present(text, MainHeader) <=> (hasPrev \/ hasNext)
            /\ Present(text, MainFooter) <=> (hasPrev \/ hasNext)
            /\ Present(text, PrevHeader) <=> hasPrev
            /\ Present(text, NextHeader) <=> hasNext
            /\ hasPrev => /\ text[1] = PrevHeader
                          /\ ContainsRun(text, <<PrevHeader>> \o tfOut.prev_lines
                                                  \o <<PrevFooter, MainHeader>>)
                          /\ Before(text, PrevFooter, MainHeader)
            /\ hasNext => /\ text[Len(text)] = NextFooter
                          /\ ContainsRun(text, <<MainFooter, NextHeader>> \o tfOut.next_lines
                                                  \o <<NextFooter>>)
                          /\ Before(text, MainFooter, NextHeader)
            /\ (hasPrev \/ hasNext) =>
                   ContainsRun(text, <<MainHeader>> \o tfArgs.content \o <<MainFooter>>)
            /\ ~(hasPrev \/ hasNext) => text = tfArgs.content

C20_Witness ==
    /\ tfOut.status = "built"
    /\ PartPlaces(tfOut.full_prompt, "dictionary") = {2}
    /\ tfOut.prev_lines = <<"q">>
    /\ tfOut.next_lines = <<>>
    /\ tfArgs.next_file = UnreadableFile
    /\ tfArgs.content = <<"p">>
    /\ TextOf(tfOut.full_prompt) = <<PrevHeader, "q", PrevFooter, MainHeader, "p", MainFooter>>

(***************************************************************************)
(* scripts/chunk_md.py: chunk_by_size (lines 75-109), called by main() in  *)
(* the modes "chars" and "tokens" (lines 231-240).  Positions count from 0 *)
(* as in the code; the content is a sequence of characters.                *)
(***************************************************************************)
MaxContentLen == 5
MaxOption == 2
MaxIterations == MaxContentLen + 2

ContentAlphabet == {"a", "\n"}
Contents == {<<>>} \cup SeqsUpTo(ContentAlphabet, MaxContentLen)

\* a slice index as Python reads it: a negative one counts from the end
SliceIndex(i, n) == IF i < 0 THEN (IF i + n < 0 THEN 0 ELSE i + n) ELSE IF i > n THEN n ELSE i

\* content[a:b]
Slice(s, a, b) ==
    LET lo == SliceIndex(a, Len(s))
        hi == SliceIndex(b, Len(s))
    IN  IF lo >= hi THEN <<>> ELSE SubSeq(s, lo + 1, hi)

\* content.rfind('\n\n', a, b): the highest position of a paragraph break
\* that lies within content[a:b], -1 when there is none
RFindBreak(s, a, b) ==
    LET lo == SliceIndex(a, Len(s))
        hi == SliceIndex(b, Len(s))
        found == {i \in lo..(hi - 2) : s[i + 1] = "\n" /\ s[i + 2] = "\n"}
    IN  IF found = {} THEN -1 ELSE CHOOSE i \in found : \A j \in found : j <= i

Max(x, y) == IF x >= y THEN x ELSE y

\* the distance of line 96 within which a paragraph break is looked for
BreakWindow == 200

\* end of the chunk that starts at start (lines 91-100)
ChunkEnd(content, start, max_chars) ==
    LET end == start + max_chars
    IN  IF end < Len(content)
        THEN LET search_start == Max(start + max_chars - BreakWindow, start)
                 para_break   == RFindBreak(content, search_start, end)
             IN  IF para_break # -1 THEN para_break + 2 ELSE end
        ELSE end

\* start = end - overlap if end < len(content) else end (line 107)
NextStart(content, start, end, overlap) ==
    IF end < Len(content) THEN end - overlap ELSE end

\* main() hands over --max-chars and --overlap; chunk_by_tokens multiplies
\* --max-tokens and --overlap by 4 (lines 126-129)
ChunkingInit ==
    /\ \E content \in Contents, mode \in {"chars", "tokens"},
          max \in 1..MaxOption, overlap \in 0..MaxOption :
         chunking = [pc |-> "loop", mode |-> mode, content |-> content,
                     max_chars |-> IF mode = "tokens" THEN max * 4 ELSE max,
                     overlap |-> IF mode = "tokens" THEN overlap * 4 ELSE overlap,
                     start |-> 0, chunks |-> <<>>, iterations |-> 0]
    /\ pipeline = NoCall

\* one iteration of "while start < len(content)" (lines 90-107); the model
\* follows a call for MaxIterations iterations
ChunkLoop ==
    /\ chunking.pc = "loop"
    /\ chunking.start < Len(chunking.content)
    /\ chunking.iterations < MaxIterations
    /\ LET end   == ChunkEnd(chunking.content, chunking.start, chunking.max_chars)
           chunk == Strip(Slice(chunking.content, chunking.start, end))
       IN  chunking' = [chunking EXCEPT
                          !.chunks = IF chunk # <<>> THEN Append(@, chunk) ELSE @,
                          !.start = NextStart(chunking.content, chunking.start, end,
                                              chunking.overlap),
                          !.iterations = @ + 1]

\* return chunks (line 109)
ChunkReturn ==
    /\ chunking.pc = "loop"
    /\ chunking.start >= Len(chunking.content)
    /\ chunking' = [chunking EXCEPT !.pc = "returned"]

InitChunk == ChunkingInit /\ SortIdle /\ TfIdle /\ BatchIdle
NextChunk ==
    \/ ChunkLoop /\ UNCHANGED <<sortVars, tfVars, argVars, fsVars, runVars, histVars, pipeline>>
    \/ ChunkReturn /\ UNCHANGED <<sortVars, tfVars, argVars, fsVars, runVars, histVars, pipeline>>
SpecChunk == InitChunk /\ [][NextChunk]_vars

(***************************************************************************)
(* scripts/pipeline.py: main() runs the three stages as child processes,   *)
(* one after the other (lines 195-306).                                    *)
(***************************************************************************)
\* what a child process may exit with, and what it has exited with when
\* Ctrl+C reached the pipeline while it was running (it ended just then, its
\* own handler exited with 130, or subprocess.run killed it: -9)
ReturnCodes == {0, 1, 130}
InterruptedReturnCodes == {0, 130, -9}

PipelineArgs ==
    [valid : BOOLEAN, skip_chunking : BOOLEAN, no_wrap : BOOLEAN, model : BOOLEAN,
     dictionary : BOOLEAN]

\* the commands of lines 229-235, 247-256, 268-282
chunk_cmd == <<"chunk_pdf.py", "pdf_path", "-o", "chunks_dir", "-p", "pages_per_chunk">>
convert_cmd(args) ==
    <<"batch_convert_pdf_to_md.py", IF args.skip_chunking THEN "project_dir" ELSE "chunks_dir">>
        \o (IF args.no_wrap THEN <<"--no-wrap">> ELSE <<"--line-width", "line_width">>)
translate_cmd(args) ==
    <<"translate_md.py", IF args.skip_chunking THEN "project_dir/pdf_name.md" ELSE "chunks_dir",
      "-s", "source_lang", "-t", "target_lang", "--provider", "provider", "-c", "context_lines">>
        \o (IF args.model THEN <<"-m", "model">> ELSE <<>>)
        \o (IF args.dictionary THEN <<"-d", "dictionary">> ELSE <<>>)

PipelineInit ==
    /\ \E args \in PipelineArgs :
         pipeline = [pc |-> "Validate", args |-> args, ran |-> <<>>, ended |-> "",
                     exitStatus |-> -1]
    /\ chunking = NoCall

\* sys.exit(status), or the end of main()
PipelineExits(status, how, ran) ==
    pipeline' = [pipeline EXCEPT !.pc = "Done", !.ran = ran, !.ended = how,
                                 !.exitStatus = status]

\* a slip: only the return code 1 counts as a failure
StageFailed_OnlyOne(returncode) == returncode = 1

\* "if returncode != 0" (lines 242, 263, 289)
StageFailed(returncode) == returncode # 0

\* run_command (lines 87-110) and the test of its return code: the child has
\* run and exited; on a failure sys.exit(1), else on to the next stage
RunStage(stage, cmd, next) ==
    /\ pipeline.pc = stage
    /\ \E returncode \in ReturnCodes :
         LET ran == Append(pipeline.ran, [stage |-> stage, cmd |-> cmd, returncode |-> returncode])
         IN  IF StageFailed(returncode) THEN PipelineExits(1, "stage_failed", ran)
             ELSE IF next = "Done" THEN PipelineExits(0, "success", ran)
             ELSE pipeline' = [pipeline EXCEPT !.pc = next, !.ran = ran]

\* validate_pdf_path (lines 196-199), before the try
ValidatePdfPath ==
    /\ pipeline.pc = "Validate"
    /\ IF ~pipeline.args.valid THEN PipelineExits(1, "invalid", pipeline.ran)
       ELSE pipeline' = [pipeline EXCEPT !.pc = IF pipeline.args.skip_chunking
                                                 THEN "Convert" ELSE "Chunk"]

\* Step 1 (lines 226-244), Step 2 (lines 247-265), Step 3 (lines 268-299)
ChunkPdf == RunStage("Chunk", chunk_cmd, "Convert")
ConvertToMarkdown == RunStage("Convert", convert_cmd(pipeline.args), "Translate")
TranslateMarkdown == RunStage("Translate", translate_cmd(pipeline.args), "Done")

StageCmd(stage) ==
    CASE stage = "Chunk" -> chunk_cmd
      [] stage = "Convert" -> convert_cmd(pipeline.args)
      [] stage = "Translate" -> translate_cmd(pipeline.args)

\* Ctrl+C while subprocess.run waits for the child: KeyboardInterrupt,
\* sys.exit(130) (lines 301-303); the child has ended as well
PipelineInterrupted ==
    /\ pipeline.pc \in {"Chunk", "Convert", "Translate"}
    /\ \E returncode \in InterruptedReturnCodes :
         PipelineExits(130, "interrupted",
                       Append(pipeline.ran, [stage |-> pipeline.pc,
                                 cmd |-> StageCmd(pipeline.pc),
                                 returncode |-> returncode]))

\* subprocess.run raises (the child could not be started): except Exception,
\* sys.exit(1) (lines 304-306)
PipelineUnexpectedError ==
    /\ pipeline.pc \in {"Chunk", "Convert", "Translate"}
    /\ PipelineExits(1, "error", pipeline.ran)

InitPipeline == PipelineInit /\ SortIdle /\ TfIdle /\ BatchIdle
NextPipeline ==
    \/ ValidatePdfPath /\ UNCHANGED <<sortVars, tfVars, argVars, fsVars, runVars, histVars, chunking>>
    \/ ChunkPdf /\ UNCHANGED <<sortVars, tfVars, argVars, fsVars, runVars, histVars, chunking>>
    \/ ConvertToMarkdown /\ UNCHANGED <<sortVars, tfVars, argVars, fsVars, runVars, histVars, chunking>>
    \/ TranslateMarkdown /\ UNCHANGED <<sortVars, tfVars, argVars, fsVars, runVars, histVars, chunking>>
    \/ PipelineInterrupted /\ UNCHANGED <<sortVars, tfVars, argVars, fsVars, runVars, histVars, chunking>>
    \/ PipelineUnexpectedError /\ UNCHANGED <<sortVars, tfVars, argVars, fsVars, runVars, histVars, chunking>>
SpecPipeline == InitPipeline /\ [][NextPipeline]_vars

(***************************************************************************)
(* Source chunks and artifacts over several runs.                          *)
(***************************************************************************)
\* a TranslationArtifact: a file some run wrote for a target language
IsTranslationArtifact(n) == \E l \in AllLangs : EndsWith(Stem(n), <<"_">> \o l)

\* the original chunks of the directory
OriginalChunks == {n \in DOMAIN srcDir : EndsWith(n, MdSuffix) /\ ~IsTranslationArtifact(n)}

\* the neighbours of f in the natural sequence of the chunks of S
PredecessorIn(S, f) ==
    LET before == {x \in S : NaturallyBefore(x, f)}
    IN  IF before = {} THEN None
        ELSE CHOOSE x \in before : \A y \in before : ~NaturallyBefore(x, y)
SuccessorIn(S, f) ==
    LET after == {x \in S : NaturallyBefore(f, x)}
    IN  IF after = {} THEN None
        ELSE CHOOSE x \in after : \A y \in after : ~NaturallyBefore(y, x)

\* C21: in directory mode the previous and next files a job takes its context
\* from are never translation artifacts, of this batch or of an earlier run on
\* the directory, and for an original chunk they are its predecessor and its
\* successor in the natural sequence of the original chunks.
C21_ContextOnlyFromOriginalText ==
    (inputKind = "dir" /\ pc = "Job" /\ context_lines > 0) =>
        /\ prev_file = None \/ ~IsTranslationArtifact(prev_file)
        /\ next_file = None \/ ~IsTranslationArtifact(next_file)
        /\ CurrentFile \in OriginalChunks =>
              /\ prev_file = PredecessorIn(OriginalChunks, CurrentFile)
              /\ next_file = SuccessorIn(OriginalChunks, CurrentFile)

\* C22: every request of a batch lists the entries of the dictionary file as
\* it was when the batch started, and when that file was well formed no job of
\* the batch fails on the dictionary, whatever happens to the file while the
\* batch is running.
C22_DictionaryFixedForBatch ==
    (pc # "Start" /\ WellFormedDictionary(atStart.dictionary)) =>
        /\ calls > 0 => RequestEntries(sent) = ExpectedEntries(atStart.dictionary.lines)
        /\ outcome # "dictionary"

\* C23: the job that fails leaves the source directory, the output directory
\* (whether it exists and what it holds) and every artifact as they were; a
\* step that creates the output directory or writes a file is a step in which
\* the backend was called and returned a text that is not blank.
C23_FailedJobLeavesOutputUntouched ==
    [][ /\ jobFailed' # jobFailed =>
              /\ srcDir' = srcDir
              /\ outDir' = outDir
              /\ outDirExists' = outDirExists
        /\ (srcDir' # srcDir \/ outDir' # outDir \/ outDirExists' # outDirExists) =>
              /\ calls' = calls + 1
              /\ reply' # NoReply
              /\ NonBlank(reply') # <<>>
              /\ CurrentFile \notin jobFailed' ]_vars

\* a job failed on an empty reply while the output directory did not exist yet
C23_Witness ==
    /\ outputDirOpt = "out"
    /\ ~outDirExists
    /\ LastJobOver
    /\ LastChunk \in jobFailed \cap dispatched
    /\ outcome = "empty"

\* C24: a run that Ctrl+C ended has exit status 130, started no job after the
\* one in flight, and left the job in flight either complete (its artifact
\* written in full) or cleanly failed (no file opened for it).
C24_Cancellation ==
    ended = "interrupted" =>
        /\ pc = "Done"
        /\ exitStatus = 130
        /\ attempted = FirstPending(idx + 1)
        /\ \/ OpenedFor(CurrentFile) = {}
           \/ OpenedFor(CurrentFile) \subseteq written

\* the chunks this run wrote an artifact for
WrittenChunks == {w[3] : w \in written}

\* the counters count the jobs: one chunk, one count
TallyCountsJobs ==
    /\ processed + failed = idx
    /\ processed = Cardinality(WrittenChunks)
    /\ processed = Cardinality(written)
    /\ failed = Cardinality(jobFailed)
    /\ WrittenChunks \cap jobFailed = {}
    /\ WrittenChunks \cup jobFailed = FirstPending(idx)

\* C25: after the k-th iteration of the loop processed + failed = k, no chunk
\* is counted twice, and when the run is over (Ctrl+C apart) every pending
\* chunk has been counted, as processed or as failed: processed + failed is
\* the number of pending chunks and processed the number of artifacts written.
C25_TallyInvariant ==
    /\ TallyCountsJobs
    /\ (pc = "Done" /\ ended # "interrupted") =>
          /\ processed + failed = Len(files_to_process)
          /\ WrittenChunks \cup jobFailed = Elems(files_to_process)

\* the work list of a run that follows another one
ResumedWorkList ==
    (inputKind = "dir" /\ outputDirOpt = "none" /\ run >= 2 /\ pc # "Start") =>
        /\ Elems(files_to_process) =
               {f \in atStart.src : IsSourceChunk(f) /\ ArtifactOf(f) \notin atStart.src}
        /\ prevJobs.failed \subseteq Elems(files_to_process)
        /\ (prevJobs.pending \ prevJobs.opened) \subseteq Elems(files_to_process)
        /\ prevJobs.written \cap Elems(files_to_process) = {}
        /\ prevJobs.written \cap attempted = {}

\* C26: in directory mode with the default output directory a re-run with the
\* same target language has as its work list exactly the chunks without an
\* artifact: the chunks whose job failed in the run before and the chunks that
\* run never reached are in it, the chunks whose job succeeded are not and are
\* not dispatched again; and when the backend answers every chunk with a text
\* in the end, the re-runs reach a run with zero pending chunks.
C26_ResumeAfterPartialFailure ==
    /\ []ResumedWorkList
    /\ <>(pc = "Done" /\ ended = "no_pending")

\* a run in which one job failed and one succeeded, then a run that dispatched
\* the failed chunk alone and wrote its artifact
C26_Witness ==
    /\ run >= 2
    /\ prevJobs.failed # {}
    /\ prevJobs.written # {}
    /\ pc = "Done"
    /\ ended = "loop_end"
    /\ failed = 0
    /\ dispatched = prevJobs.failed
    /\ WrittenChunks = prevJobs.failed

\* the source chunks of the directory, translated or not
SourceChunks == {n \in DOMAIN srcDir : IsSourceChunk(n)}

\* the payload of chunk f in a run over the whole directory, nothing being
\* translated yet: its neighbours are taken from all source chunks
FreshPayload(f) ==
    ContentWithContext(FileAt(f).lines,
                       IF context_lines > 0 THEN FileAt(PredecessorIn(SourceChunks, f)) ELSE NoFile,
                       IF context_lines > 0 THEN FileAt(SuccessorIn(SourceChunks, f)) ELSE NoFile,
                       context_lines)

\* C27: in directory mode the payload sent for a chunk is the payload a fresh
\* run over the whole directory sends for it, whichever of its neighbours are
\* already translated and left out of the work list.
C27_PayloadIndependentOfCompletion ==
    (inputKind = "dir" /\ LastJobOver /\ LastChunk \in dispatched) =>
        TextOf(sent) = FreshPayload(LastChunk)

\* a resumed run sent a chunk whose neighbour the run before had translated
C27_Witness ==
    /\ inputKind = "dir"
    /\ run >= 2
    /\ context_lines > 0
    /\ LastJobOver
    /\ LastChunk \in dispatched
    /\ prev_file \in prevJobs.written
    /\ prev_file \notin Elems(files_to_process)
    /\ NeighbourReadable(prev_file)

\* C28: the work list of a batch holds original chunks only, those without an
\* artifact of the batch's own target language, whatever artifacts the runs
\* for another target language have left in the directory; no artifact is
\* dispatched as a source chunk.
C28_TargetLanguagesDoNotInterfere ==
    (inputKind = "dir" /\ pc # "Start" /\ all_md_files # <<>>) =>
        /\ Elems(files_to_process) =
               {f \in OriginalChunks : ArtifactOf(f) \notin atStart.src}
        /\ \A f \in attempted \cup dispatched : ~IsTranslationArtifact(f)

(***************************************************************************)
(* The pipeline.                                                           *)
(***************************************************************************)
\* the stages in the order of the pipeline, chunking left out by --skip-chunking
StagesToRun ==
    IF pipeline.args.skip_chunking THEN <<"Convert", "Translate">>
    ELSE <<"Chunk", "Convert", "Translate">>

PipelineRan == pipeline # NoCall /\ pipeline.pc # "Validate"
SomeStageFailed == \E i \in 1..Len(pipeline.ran) : pipeline.ran[i].returncode # 0

\* the stages run in order, each after the one before it exited with 0, and
\* success is reported only after all of them exited with 0
StagesRunInOrder ==
    PipelineRan =>
        /\ Len(pipeline.ran) <= Len(StagesToRun)
        /\ \A i \in 1..Len(pipeline.ran) : pipeline.ran[i].stage = StagesToRun[i]
        /\ \A i \in 1..(Len(pipeline.ran) - 1) : pipeline.ran[i].returncode = 0
        /\ pipeline.exitStatus = 0 =>
              /\ Len(pipeline.ran) = Len(StagesToRun)
              /\ ~SomeStageFailed

\* C29 as stated: the stages run in order, each after the one before it exited
\* with 0; when a stage exits nonzero no later stage is run and the pipeline
\* exits with status 1.
C29_StageOrderingAsStated ==
    /\ StagesRunInOrder
    /\ (PipelineRan /\ pipeline.pc = "Done" /\ SomeStageFailed) => pipeline.exitStatus = 1

\* C29: the stages run in order, each after the one before it exited with 0,
\* and success is reported only when all of them exited with 0; when a stage
\* exits nonzero no later stage is run and the pipeline exits with status 1,
\* or with status 130 when Ctrl+C reached the pipeline while that stage was
\* running; it exits with 130 in no other case.
C29_StageOrdering ==
    /\ StagesRunInOrder
    /\ (PipelineRan /\ pipeline.pc = "Done" /\ SomeStageFailed) =>
          \/ pipeline.ended = "stage_failed" /\ pipeline.exitStatus = 1
          \/ pipeline.ended = "interrupted" /\ pipeline.exitStatus = 130
    /\ (PipelineRan /\ pipeline.exitStatus = 130) => pipeline.ended = "interrupted"

\* chunking exited with 0, conversion with a nonzero status: translation was
\* not run and the pipeline exited with 1
C29_Witness ==
    /\ PipelineRan
    /\ pipeline.pc = "Done"
    /\ Len(pipeline.ran) = 2
    /\ pipeline.ran[1].stage = "Chunk" /\ pipeline.ran[1].returncode = 0
    /\ pipeline.ran[2].stage = "Convert" /\ pipeline.ran[2].returncode # 0
    /\ pipeline.exitStatus = 1

(***************************************************************************)
(* Chunking by size.                                                       *)
(***************************************************************************)
\* C30: every iteration of the loop of chunk_by_size moves start forward, for
\* every content, every max_chars >= 1 and every overlap >= 0 (so that the
\* loop ends after at most len(content) iterations).
C30_StartStrictlyIncreases ==
    [][chunking.pc = "loop" /\ chunking'.pc = "loop" => chunking'.start > chunking.start]_vars


====
